---- MODULE Spec2Model ----
(***************************************************************************)
(* A model of package maps (maps.go, iter.go): generic helper functions    *)
(* over Go maps.  A Go map value is a reference: nil, or the address of a  *)
(* hash table on the heap.  The model keeps that: `heap' maps addresses    *)
(* to tables (finite functions from keys to values), `reg' holds the map   *)
(* variables of a caller.  Every `for k, v := range m' of the source is a  *)
(* recursive loop operator over an iteration order `ord', which the        *)
(* actions choose freely among the permutations of the map's keys (Go      *)
(* leaves the order unspecified); an entry removed before the loop reaches *)
(* it is not produced.  A panic is the result `fatal'.                     *)
(***************************************************************************)
EXTENDS Integers, Sequences, FiniteSets, TLC

\* ---------------------------------------------------------------- bounds
MaxKey == 2
MaxVal == 1
MaxLen == 2
MaxSize == 2
NumAddr == 3

\* ------------------------------------------------------- values of Go
\* The zero value of V (var v V) and the nil map reference.
Zero == 0
Nil == 0
\* A nil function value (predicate, equality function, generator, iter.Seq2).
NilFn == "nil"

KeySet == 1..MaxKey
ValSet == 0..MaxVal
Addr == 1..NumAddr
Regs == {"m1", "m2"}

\* type Item[K, V]
Item(k, v) == [Key |-> k, Value |-> v]
ItemSet == {Item(k, v) : k \in KeySet, v \in ValSet}

\* A slice: nil, or a (possibly empty) sequence of elements.
NilSlice == [nil |-> TRUE, elems |-> <<>>]
MkSlice(s) == [nil |-> FALSE, elems |-> s]

\* The tables a map can hold, and the empty one (make(map[K]V)).
EmptyKV == [k \in {} |-> Zero]
AllKV == UNION {[D -> ValSet] : D \in SUBSET KeySet}

\* m[k] = v  and  delete(m, k)  on one table
Put(kv, k, v) == [x \in (DOMAIN kv) \cup {k} |-> IF x = k THEN v ELSE kv[x]]
Del(kv, k) == [x \in (DOMAIN kv) \ {k} |-> kv[x]]

\* The same through a (non-nil) reference.
Store(h, m, k, v) == [h EXCEPT ![m] = Put(h[m], k, v)]
Remove(h, m, k) == [h EXCEPT ![m] = Del(h[m], k)]

\* make(map[K]V, n): a fresh table at an address not in use.
Fresh(h) == CHOOSE a \in Addr \ DOMAIN h : \A b \in Addr \ DOMAIN h : a <= b
Make(h) == [ref |-> Fresh(h), heap |-> [a \in (DOMAIN h) \cup {Fresh(h)} |-> IF a = Fresh(h) THEN EmptyKV ELSE h[a]]]

\* Tables no map variable refers to any more are reclaimed by the runtime.  A program
\* cannot observe the address of a map (it compares a map with nil only), so the tables
\* kept are renumbered: m1's comes first.
Renumber(rg) ==
    [m1 |-> IF rg.m1 = Nil THEN Nil ELSE 1,
     m2 |-> IF rg.m2 = Nil THEN Nil ELSE IF rg.m1 = Nil \/ rg.m2 = rg.m1 THEN 1 ELSE 2]
Sweep(h, rg) ==
    [reg |-> Renumber(rg),
     heap |-> [a \in {Renumber(rg)[r] : r \in Regs} \ {Nil} |->
                  h[rg[CHOOSE r \in Regs : Renumber(rg)[r] = a]]]]

\* len(m), m[k] with the comma-ok form; both are defined for a nil map.
MapLen(h, m) == IF m = Nil THEN 0 ELSE Cardinality(DOMAIN h[m])
Has(h, m, k) == m # Nil /\ k \in DOMAIN h[m]

\* The orders in which a range loop over m may visit the keys present at its start.
Perms(S) == {s \in [1..Cardinality(S) -> S] : \A i, j \in 1..Cardinality(S) : i # j => s[i] # s[j]}
Orders(h, m) == IF m = Nil THEN {<<>>} ELSE Perms(DOMAIN h[m])

\* The result of a call: whether it panicked, the heap it leaves, what it returns.
Res(f, h, o) == [fatal |-> f, heap |-> h, out |-> o]

\* ------------------------------------------------------------- maps.go

\* Clone
RECURSIVE CloneLoop(_, _, _, _)
CloneLoop(h, result, m, ord) ==
    IF ord = <<>> THEN h
    ELSE CloneLoop(Store(h, result, Head(ord), h[m][Head(ord)]), result, m, Tail(ord))

Clone_Alias(h, m, ord) == Res(FALSE, h, m)

Clone(h, m, ord) ==
    IF m = Nil THEN Res(FALSE, h, Nil)
    ELSE LET mk == Make(h)
         IN  Res(FALSE, CloneLoop(mk.heap, mk.ref, m, ord), mk.ref)

\* Update
RECURSIVE UpdateLoop(_, _, _, _)
UpdateLoop(h, m1, m2, ord) ==
    IF ord = <<>> THEN h
    ELSE IF Has(h, m2, Head(ord))
         THEN UpdateLoop(Store(h, m1, Head(ord), h[m2][Head(ord)]), m1, m2, Tail(ord))
         ELSE UpdateLoop(h, m1, m2, Tail(ord))

Update_KeepOld(h, m1, m2, ord) ==
    IF m1 = Nil THEN Res(TRUE, h, Nil)
    ELSE Res(FALSE, [h EXCEPT ![m1] = [k \in (DOMAIN h[m1]) \cup {x \in KeySet : Has(h, m2, x)} |->
                                          IF k \in DOMAIN h[m1] THEN h[m1][k] ELSE h[m2][k]]], Nil)

Update_NoCheck(h, m1, m2, ord) ==
    IF m1 = Nil THEN Res(FALSE, h, Nil) ELSE Res(FALSE, UpdateLoop(h, m1, m2, ord), Nil)

Update(h, m1, m2, ord) ==
    IF m1 = Nil THEN Res(TRUE, h, Nil)
    ELSE Res(FALSE, UpdateLoop(h, m1, m2, ord), Nil)

\* Clear
RECURSIVE ClearLoop(_, _, _)
ClearLoop(h, m, ord) ==
    IF ord = <<>> THEN h
    ELSE ClearLoop(IF Has(h, m, Head(ord)) THEN Remove(h, m, Head(ord)) ELSE h, m, Tail(ord))

Clear_NilFatal(h, m, ord) == Res(m = Nil, ClearLoop(h, m, ord), Nil)

Clear(h, m, ord) == Res(FALSE, ClearLoop(h, m, ord), Nil)

\* Contains, Get
Contains(h, m, key) == Res(FALSE, h, Has(h, m, key))

Get(h, m, key, dflt) == Res(FALSE, h, IF Has(h, m, key) THEN h[m][key] ELSE dflt)

\* Keys, Values
RECURSIVE KeysLoop(_, _)
KeysLoop(result, ord) ==
    IF ord = <<>> THEN result ELSE KeysLoop(Append(result, Head(ord)), Tail(ord))

Keys(h, m, ord) ==
    IF m = Nil THEN Res(FALSE, h, NilSlice) ELSE Res(FALSE, h, MkSlice(KeysLoop(<<>>, ord)))

RECURSIVE ValuesLoop(_, _, _, _)
ValuesLoop(h, m, result, ord) ==
    IF ord = <<>> THEN result
    ELSE ValuesLoop(h, m, Append(result, h[m][Head(ord)]), Tail(ord))

Values(h, m, ord) ==
    IF m = Nil THEN Res(FALSE, h, NilSlice) ELSE Res(FALSE, h, MkSlice(ValuesLoop(h, m, <<>>, ord)))

\* The equality functions a caller passes: nil, or == on V.
EqFns == {NilFn, "=="}
ApplyEq(equal, v1, v2) == v1 = v2

\* EqualFunc, Equal
RECURSIVE EqualLoop(_, _, _, _, _)
EqualLoop(h, m1, m2, equal, ord) ==
    IF ord = <<>> THEN Res(FALSE, h, TRUE)
    ELSE IF ~Has(h, m2, Head(ord)) THEN Res(FALSE, h, FALSE)
    ELSE IF equal = NilFn THEN Res(TRUE, h, FALSE)
    ELSE IF ~ApplyEq(equal, h[m1][Head(ord)], h[m2][Head(ord)]) THEN Res(FALSE, h, FALSE)
    ELSE EqualLoop(h, m1, m2, equal, Tail(ord))

EqualFunc_NoNilCheck(h, m1, m2, equal, ord) ==
    IF MapLen(h, m1) # MapLen(h, m2) THEN Res(FALSE, h, FALSE)
    ELSE EqualLoop(h, m1, m2, equal, ord)

EqualFunc(h, m1, m2, equal, ord) ==
    IF MapLen(h, m1) # MapLen(h, m2) THEN Res(FALSE, h, FALSE)
    ELSE IF (m1 = Nil /\ m2 # Nil) \/ (m1 # Nil /\ m2 = Nil) THEN Res(FALSE, h, FALSE)
    ELSE EqualLoop(h, m1, m2, equal, ord)

Equal(h, m1, m2, ord) == EqualFunc(h, m1, m2, "==", ord)

\* Items
RECURSIVE ItemsLoop(_, _, _, _)
ItemsLoop(h, m, result, ord) ==
    IF ord = <<>> THEN result
    ELSE ItemsLoop(h, m, Append(result, Item(Head(ord), h[m][Head(ord)])), Tail(ord))

Items(h, m, ord) ==
    IF m = Nil THEN Res(FALSE, h, NilSlice) ELSE Res(FALSE, h, MkSlice(ItemsLoop(h, m, <<>>, ord)))

\* FromItems
RECURSIVE FromItemsLoop(_, _, _)
FromItemsLoop(h, m, items) ==
    IF items = <<>> THEN h
    ELSE FromItemsLoop(Store(h, m, Head(items).Key, Head(items).Value), m, Tail(items))

FromItems(h, items) ==
    IF items.nil THEN Res(FALSE, h, Nil)
    ELSE LET mk == Make(h)
         IN  Res(FALSE, FromItemsLoop(mk.heap, mk.ref, items.elems), mk.ref)

\* FromSlices
RECURSIVE FromSlicesLoop(_, _, _, _, _)
FromSlicesLoop(h, m, keys, values, i) ==
    IF i > Len(keys) THEN h
    ELSE FromSlicesLoop(Store(h, m, keys[i], IF i <= Len(values) THEN values[i] ELSE Zero),
                        m, keys, values, i + 1)

FromSlices_FirstWins(h, keys, values) ==
    IF keys.nil THEN Res(FALSE, h, Nil)
    ELSE LET mk == Make(h)
             first(k) == CHOOSE i \in 1..Len(keys.elems) :
                            keys.elems[i] = k /\ \A j \in 1..(i - 1) : keys.elems[j] # k
         IN  Res(FALSE, [mk.heap EXCEPT ![mk.ref] =
                            [k \in {keys.elems[i] : i \in 1..Len(keys.elems)} |->
                                IF first(k) <= Len(values.elems) THEN values.elems[first(k)] ELSE Zero]],
                 mk.ref)

FromSlices(h, keys, values) ==
    IF keys.nil THEN Res(FALSE, h, Nil)
    ELSE LET mk == Make(h)
         IN  Res(FALSE, FromSlicesLoop(mk.heap, mk.ref, keys.elems, values.elems, 1), mk.ref)

\* FromFuncs.  A generator function is nil, or returns the next element of its
\* stream at each call; the result counts the calls made of each.
FromFuncsOut(m, kc, vc) == [ref |-> m, keyCalls |-> kc, valCalls |-> vc]

RECURSIVE FromFuncsLoop(_, _, _, _, _, _)
FromFuncsLoop(h, m, size, keys, values, i) ==
    IF ~(i < size) THEN Res(FALSE, h, FromFuncsOut(m, i, IF values.nil THEN 0 ELSE i))
    ELSE LET v == IF ~values.nil THEN values.stream[i + 1] ELSE Zero
         IN  FromFuncsLoop(Store(h, m, keys.stream[i + 1], v), m, size, keys, values, i + 1)

FromFuncs_OneShort(h, size, keys, values) ==
    IF size < 0 \/ keys.nil THEN Res(TRUE, h, FromFuncsOut(Nil, 0, 0))
    ELSE LET mk == Make(h)
         IN  FromFuncsLoop(mk.heap, mk.ref, size - 1, keys, values, 0)

FromFuncs(h, size, keys, values) ==
    IF size < 0 THEN Res(TRUE, h, FromFuncsOut(Nil, 0, 0))
    ELSE IF keys.nil THEN Res(TRUE, h, FromFuncsOut(Nil, 0, 0))
    ELSE LET mk == Make(h)
         IN  FromFuncsLoop(mk.heap, mk.ref, size, keys, values, 0)

\* KeysForValueFunc, KeysForValue
RECURSIVE KeysForValueLoop(_, _, _, _, _, _)
KeysForValueLoop(h, m, value, equal, keys, ord) ==
    IF ord = <<>> THEN Res(FALSE, h, MkSlice(keys))
    ELSE IF equal = NilFn THEN Res(TRUE, h, NilSlice)
    ELSE KeysForValueLoop(h, m, value, equal,
                          IF ApplyEq(equal, h[m][Head(ord)], value) THEN Append(keys, Head(ord)) ELSE keys,
                          Tail(ord))

KeysForValueFunc(h, m, value, equal, ord) ==
    IF m = Nil THEN Res(FALSE, h, NilSlice)
    ELSE KeysForValueLoop(h, m, value, equal, <<>>, ord)

KeysForValue(h, m, value, ord) == KeysForValueFunc(h, m, value, "==", ord)

\* The predicates a caller passes to Delete: nil, or one of those of TestDelete.
Preds == {NilFn, "true", "false", "v<1", "k==1"}
ApplyPred(fn, k, v) ==
    CASE fn = "true" -> TRUE
      [] fn = "false" -> FALSE
      [] fn = "v<1" -> v < 1
      [] fn = "k==1" -> k = 1

\* Delete
RECURSIVE DeleteLoop(_, _, _, _, _)
DeleteLoop(h, m, fn, cnt, ord) ==
    IF ord = <<>> THEN Res(FALSE, h, cnt)
    ELSE IF ~Has(h, m, Head(ord)) THEN DeleteLoop(h, m, fn, cnt, Tail(ord))
    ELSE IF fn = NilFn THEN Res(TRUE, h, cnt)
    ELSE IF ApplyPred(fn, Head(ord), h[m][Head(ord)])
         THEN DeleteLoop(Remove(h, m, Head(ord)), m, fn, cnt + 1, Tail(ord))
         ELSE DeleteLoop(h, m, fn, cnt, Tail(ord))

Delete_CountAll(h, m, fn, ord) ==
    LET r == DeleteLoop(h, m, fn, 0, ord) IN Res(r.fatal, r.heap, IF r.fatal THEN r.out ELSE Len(ord))

Delete(h, m, fn, ord) == DeleteLoop(h, m, fn, 0, ord)

\* ------------------------------------------------------------- iter.go

\* Iter, IterKeys, IterValues: what the loop body passes to yield for key k.
IterOps == {"Iter", "IterKeys", "IterValues"}
IterElem(op, h, m, k) ==
    CASE op = "Iter" -> Item(k, h[m][k])
      [] op = "IterKeys" -> k
      [] op = "IterValues" -> h[m][k]

\* if !yield(k, v) { return }
AfterYield_Ignore(continue) == "running"

AfterYield(continue) == IF continue THEN "running" ELSE "stopped"

\* The iter.Seq2 value Iter(m), by the pairs it yields to a consumer that never stops.
IterSeq(h, m, ord) == [nil |-> FALSE, elems |-> [i \in 1..Len(ord) |-> Item(ord[i], h[m][ord[i]])]]

\* Collect
RECURSIVE CollectLoop(_, _, _)
CollectLoop(h, result, pairs) ==
    IF pairs = <<>> THEN h
    ELSE CollectLoop(Store(h, result, Head(pairs).Key, Head(pairs).Value), result, Tail(pairs))

Collect_NilForEmpty(h, seq) ==
    IF seq.nil THEN Res(TRUE, h, Nil)
    ELSE IF seq.elems = <<>> THEN Res(FALSE, h, Nil)
    ELSE LET mk == Make(h)
         IN  Res(FALSE, CollectLoop(mk.heap, mk.ref, seq.elems), mk.ref)

Collect(h, seq) ==
    LET mk == Make(h)
    IN  IF seq.nil THEN Res(TRUE, h, Nil)
        ELSE Res(FALSE, CollectLoop(mk.heap, mk.ref, seq.elems), mk.ref)

\* ------------------------------------------------------------ the state
VARIABLES
    heap,   \* address -> table, for the tables in use
    reg,    \* the caller's map variables m1, m2: Nil or an address
    call,   \* the call being made, or made last: its name and arguments
    ret,    \* its result: pending, returned or fatal, with the value returned
    hist,   \* since the last Clone: the contents each variable must have
    it      \* the run of an iterator: the loop's position and what it yielded

vars == <<heap, reg, call, ret, hist, it>>

\* A map variable's value as the caller sees it: nil, or the pairs it holds.
MapVal(h, m) == IF m = Nil THEN [nil |-> TRUE, kv |-> EmptyKV] ELSE [nil |-> FALSE, kv |-> h[m]]

Pending == [status |-> "pending"]
Returned(r) == [status |-> IF r.fatal THEN "fatal" ELSE "returned", out |-> r.out]
NoHist == [on |-> FALSE]
IdleIt == [state |-> "idle"]

IsCall(op) == ret.status = "pending" /\ call.op = op

\* A call that may have written the table of variable t.
Touch(t, h) == IF hist.on THEN [hist EXCEPT !.expect[t] = MapVal(h, reg[t])] ELSE hist

\* ---------------------------------------------------------- the actions

CloneOp ==
    /\ IsCall("Clone")
    /\ \E ord \in Orders(heap, reg[call.m]) :
         LET r == Clone(heap, reg[call.m], ord)
             rg == [reg EXCEPT ![call.to] = r.out]
         IN  \E ord2 \in Orders(r.heap, r.out) :
               /\ reg' = Sweep(r.heap, rg).reg
               /\ heap' = Sweep(r.heap, rg).heap
               /\ ret' = Returned(Res(r.fatal, r.heap, [equal |-> Equal(r.heap, r.out, reg[call.m], ord2).out]))
               /\ hist' = [on |-> TRUE, orig |-> call.m, copy |-> call.to,
                           expect |-> [x \in Regs |-> MapVal(heap, reg[call.m])]]
    /\ UNCHANGED <<call, it>>

UpdateOp ==
    /\ IsCall("Update")
    /\ \E ord \in Orders(heap, reg[call.m2]) :
         LET r == Update(heap, reg[call.m1], reg[call.m2], ord)
         IN  /\ heap' = r.heap
             /\ ret' = Returned(r)
             /\ hist' = Touch(call.m1, r.heap)
    /\ UNCHANGED <<reg, call, it>>

ClearOp ==
    /\ IsCall("Clear")
    /\ \E ord \in Orders(heap, reg[call.m]) :
         LET r == Clear(heap, reg[call.m], ord)
         IN  /\ heap' = r.heap
             /\ ret' = Returned(r)
             /\ hist' = Touch(call.m, r.heap)
    /\ UNCHANGED <<reg, call, it>>

DeleteOp ==
    /\ IsCall("Delete")
    /\ \E ord \in Orders(heap, reg[call.m]) :
         LET r == Delete(heap, reg[call.m], call.fn, ord)
         IN  /\ heap' = r.heap
             /\ ret' = Returned(r)
             /\ hist' = Touch(call.m, r.heap)
    /\ UNCHANGED <<reg, call, it>>

ContainsOp ==
    /\ IsCall("Contains")
    /\ ret' = Returned(Contains(heap, reg[call.m], call.key))
    /\ UNCHANGED <<heap, reg, call, hist, it>>

GetOp ==
    /\ IsCall("Get")
    /\ ret' = Returned(Get(heap, reg[call.m], call.key, call.dflt))
    /\ UNCHANGED <<heap, reg, call, hist, it>>

KeysOp ==
    /\ IsCall("Keys")
    /\ \E ord \in Orders(heap, reg[call.m]) : ret' = Returned(Keys(heap, reg[call.m], ord))
    /\ UNCHANGED <<heap, reg, call, hist, it>>

ValuesOp ==
    /\ IsCall("Values")
    /\ \E ord \in Orders(heap, reg[call.m]) : ret' = Returned(Values(heap, reg[call.m], ord))
    /\ UNCHANGED <<heap, reg, call, hist, it>>

ItemsOp ==
    /\ IsCall("Items")
    /\ \E ord \in Orders(heap, reg[call.m]) : ret' = Returned(Items(heap, reg[call.m], ord))
    /\ UNCHANGED <<heap, reg, call, hist, it>>

\* As TestEqual calls it: Equal(m1, m2) and Equal(m2, m1).
EqualOp ==
    /\ IsCall("Equal")
    /\ \E o1 \in Orders(heap, reg[call.m1]), o2 \in Orders(heap, reg[call.m2]) :
         LET r1 == Equal(heap, reg[call.m1], reg[call.m2], o1)
             r2 == Equal(heap, reg[call.m2], reg[call.m1], o2)
         IN  ret' = Returned(Res(r1.fatal \/ r2.fatal, heap, [fwd |-> r1.out, bwd |-> r2.out]))
    /\ UNCHANGED <<heap, reg, call, hist, it>>

EqualFuncOp ==
    /\ IsCall("EqualFunc")
    /\ \E ord \in Orders(heap, reg[call.m1]) :
         ret' = Returned(EqualFunc(heap, reg[call.m1], reg[call.m2], call.equal, ord))
    /\ UNCHANGED <<heap, reg, call, hist, it>>

KeysForValueOp ==
    /\ IsCall("KeysForValue")
    /\ \E ord \in Orders(heap, reg[call.m]) :
         ret' = Returned(KeysForValue(heap, reg[call.m], call.value, ord))
    /\ UNCHANGED <<heap, reg, call, hist, it>>

KeysForValueFuncOp ==
    /\ IsCall("KeysForValueFunc")
    /\ \E ord \in Orders(heap, reg[call.m]) :
         ret' = Returned(KeysForValueFunc(heap, reg[call.m], call.value, call.equal, ord))
    /\ UNCHANGED <<heap, reg, call, hist, it>>

\* A call that returns a map, whose caller stores it in variable call.to.
Construct(r, ref) ==
    LET rg == IF r.fatal THEN reg ELSE [reg EXCEPT ![call.to] = ref]
    IN  /\ reg' = Sweep(r.heap, rg).reg
        /\ heap' = Sweep(r.heap, rg).heap
        /\ ret' = Returned(r)
        /\ UNCHANGED <<call, hist, it>>

FromItemsOp ==
    /\ IsCall("FromItems")
    /\ LET r == FromItems(heap, call.items) IN Construct(r, r.out)

FromSlicesOp ==
    /\ IsCall("FromSlices")
    /\ LET r == FromSlices(heap, call.keys, call.values) IN Construct(r, r.out)

FromFuncsOp ==
    /\ IsCall("FromFuncs")
    /\ LET r == FromFuncs(heap, call.size, call.keys, call.values) IN Construct(r, r.out.ref)

CollectOp ==
    /\ IsCall("Collect")
    /\ LET r == Collect(heap, call.seq) IN Construct(r, r.out)

\* Collect(Iter(m)), compared with m by Equal; and whether FromItems(Items(m)) is nil.
CollectIterOp ==
    /\ IsCall("CollectIter")
    /\ \E ord \in Orders(heap, reg[call.m]) :
         LET r == Collect(heap, IterSeq(heap, reg[call.m], ord))
             viaItems == FromItems(heap, Items(heap, reg[call.m], ord).out)
         IN  \E ord2 \in Orders(r.heap, r.out) :
               Construct(Res(r.fatal, r.heap,
                             [equal |-> Equal(r.heap, r.out, reg[call.m], ord2).out,
                              itemsNil |-> viaItems.out = Nil]),
                         r.out)

\* seq(yield): the range loop of Iter, IterKeys or IterValues starts ...
IterStart ==
    /\ ret.status = "pending" /\ call.op \in IterOps
    /\ it.state \in {"idle", "stopped", "ended"}
    /\ \E ord \in Orders(heap, reg[call.m]) :
         it' = [state |-> "running", rest |-> ord, out |-> <<>>, refused |-> FALSE, late |-> 0,
                afterStop |-> it.state = "stopped", pre |-> heap]
    /\ UNCHANGED <<heap, reg, call, ret, hist>>

\* ... passes the next entry to yield, which the consumer answers with continue or stop ...
IterStep ==
    /\ ret.status = "pending" /\ call.op \in IterOps
    /\ it.state = "running" /\ it.rest # <<>>
    /\ \E continue \in BOOLEAN :
         LET state == AfterYield(continue)
         IN  /\ it' = [it EXCEPT !.state = state,
                                 !.rest = Tail(it.rest),
                                 !.out = Append(it.out, IterElem(call.op, heap, reg[call.m], Head(it.rest))),
                                 !.refused = it.refused \/ ~continue,
                                 !.late = it.late + (IF it.refused THEN 1 ELSE 0)]
             /\ ret' = IF state = "stopped" THEN Returned(Res(FALSE, heap, Nil)) ELSE ret
    /\ UNCHANGED <<heap, reg, call, hist>>

\* ... and ends when no entry is left.
IterEnd ==
    /\ ret.status = "pending" /\ call.op \in IterOps
    /\ it.state = "running" /\ it.rest = <<>>
    /\ it' = [it EXCEPT !.state = "ended"]
    /\ ret' = Returned(Res(FALSE, heap, Nil))
    /\ UNCHANGED <<heap, reg, call, hist>>

\* ------------------------------------------------- callers and their inputs

SeqsUpTo(S, n) == UNION {[1..l -> S] : l \in 0..n}
Slices(S) == {NilSlice} \cup {MkSlice(s) : s \in SeqsUpTo(S, MaxLen)}
Gens(S) == {[nil |-> TRUE, stream |-> <<>>]} \cup {[nil |-> FALSE, stream |-> s] : s \in [1..MaxSize -> S]}
Sizes == (-1)..MaxSize

\* What the caller's two map variables may hold: nil, a table each, or the same table.
Setup(rg, h) == [reg |-> rg, heap |-> h]
SetupNone == {Setup([m1 |-> Nil, m2 |-> Nil], <<>>)}
SetupsOne == SetupNone \cup {Setup([m1 |-> 1, m2 |-> Nil], <<kv>>) : kv \in AllKV}
SetupsTwo ==
    SetupsOne
    \cup {Setup([m1 |-> Nil, m2 |-> 1], <<kv>>) : kv \in AllKV}
    \cup {Setup([m1 |-> 1, m2 |-> 1], <<kv>>) : kv \in AllKV}
    \cup {Setup([m1 |-> 1, m2 |-> 2], <<kv1, kv2>>) : kv1 \in AllKV, kv2 \in AllKV}

\* The calls of a caller holding two map variables (m1 is the first argument).
TwoMapCalls ==
    {[op |-> "Update", m1 |-> "m1", m2 |-> "m2"], [op |-> "Equal", m1 |-> "m1", m2 |-> "m2"]}
    \cup {[op |-> "EqualFunc", m1 |-> "m1", m2 |-> "m2", equal |-> f] : f \in EqFns}

\* The calls on one map, held in m1; a map returned goes to m2.
OneMapCalls ==
    {[op |-> o, m |-> "m1"] : o \in {"Clear", "Keys", "Values", "Items"} \cup IterOps}
    \cup {[op |-> o, m |-> "m1", to |-> "m2"] : o \in {"Clone", "CollectIter"}}
    \cup {[op |-> "Contains", m |-> "m1", key |-> k] : k \in KeySet}
    \cup {[op |-> "Get", m |-> "m1", key |-> k, dflt |-> d] : k \in KeySet, d \in ValSet}
    \cup {[op |-> "KeysForValue", m |-> "m1", value |-> v] : v \in ValSet}
    \cup {[op |-> "KeysForValueFunc", m |-> "m1", value |-> v, equal |-> f] : v \in ValSet, f \in EqFns}
    \cup {[op |-> "Delete", m |-> "m1", fn |-> f] : f \in Preds}

\* The calls that take no map and return one, stored in m1.
NoMapCalls ==
    {[op |-> "FromItems", items |-> s, to |-> "m1"] : s \in Slices(ItemSet)}
    \cup {[op |-> "FromSlices", keys |-> ks, values |-> vs, to |-> "m1"] : ks \in Slices(KeySet), vs \in Slices(ValSet)}
    \cup {[op |-> "FromFuncs", size |-> n, keys |-> kf, values |-> vf, to |-> "m1"] :
             n \in Sizes, kf \in Gens(KeySet), vf \in Gens(ValSet)}
    \cup {[op |-> "Collect", seq |-> s, to |-> "m1"] : s \in Slices(ItemSet)}

\* The calls a program makes one after the other on its two map variables.
ProgramCalls ==
    {c \in {[op |-> "Clone", m |-> a, to |-> b] : a \in Regs, b \in Regs} : c.m # c.to}
    \cup {[op |-> "Update", m1 |-> a, m2 |-> b] : a \in Regs, b \in Regs}
    \cup {[op |-> "Clear", m |-> a] : a \in Regs}
    \cup {[op |-> "Delete", m |-> a, fn |-> f] : a \in Regs, f \in Preds}

\* The program makes its next call once the last one is over (returned, or recovered from).
Invoke ==
    /\ ret.status # "pending"
    /\ \E c \in ProgramCalls : call' = c
    /\ ret' = Pending
    /\ UNCHANGED <<heap, reg, hist, it>>

\* A consumer ranges over the same iterator again, once its last run is over.
IterAgain ==
    /\ ret.status # "pending" /\ call.op \in IterOps
    /\ ret' = Pending
    /\ UNCHANGED <<heap, reg, call, hist, it>>

\* ------------------------------------------------------ specifications

\* A program: any sequence of Clone, Update, Clear and Delete calls on two map variables.
Init ==
    /\ \E s \in SetupsTwo : reg = s.reg /\ heap = s.heap
    /\ call = [op |-> "none"]
    /\ ret = [status |-> "none"]
    /\ hist = NoHist
    /\ it = IdleIt

Next ==
    \/ Invoke
    \/ CloneOp
    \/ UpdateOp
    \/ ClearOp
    \/ DeleteOp

Spec == Init /\ [][Next]_vars

\* One call of one function, on every input within the bounds.  The call keeps, as
\* `at', the maps as they were when it was made.
CallAt(s, calls) ==
    /\ reg = s.reg
    /\ heap = s.heap
    /\ \E c \in calls : call = [x \in (DOMAIN c) \cup {"at"} |-> IF x = "at" THEN s ELSE c[x]]

InitCall ==
    /\ \/ \E s \in SetupsTwo : CallAt(s, TwoMapCalls)
       \/ \E s \in SetupsOne : CallAt(s, OneMapCalls)
       \/ \E s \in SetupNone : CallAt(s, NoMapCalls)
    /\ ret = Pending
    /\ hist = NoHist
    /\ it = IdleIt

NextCall ==
    \/ CloneOp
    \/ UpdateOp
    \/ ClearOp
    \/ ContainsOp
    \/ GetOp
    \/ KeysOp
    \/ ValuesOp
    \/ EqualOp
    \/ EqualFuncOp
    \/ ItemsOp
    \/ FromItemsOp
    \/ FromSlicesOp
    \/ FromFuncsOp
    \/ KeysForValueOp
    \/ KeysForValueFuncOp
    \/ DeleteOp
    \/ IterStart
    \/ IterStep
    \/ IterEnd
    \/ CollectOp
    \/ CollectIterOp

SpecCall == InitCall /\ [][NextCall]_vars

\* Runs of Iter(m), IterKeys(m) or IterValues(m), one after the other, on one map.
InitIter ==
    /\ \E s \in SetupsOne : CallAt(s, {[op |-> o, m |-> "m1"] : o \in IterOps})
    /\ ret = Pending
    /\ hist = NoHist
    /\ it = IdleIt

NextIter ==
    \/ IterStart
    \/ IterStep
    \/ IterEnd
    \/ IterAgain

SpecIter == InitIter /\ [][NextIter]_vars

\* ------------------------------------------------------------ the claims

\* The call named op is over.
Done(op) == call.op = op /\ ret.status \in {"returned", "fatal"}
\* A map variable's value when the call was made, and now.
At(r) == MapVal(call.at.heap, call.at.reg[r])
Now(r) == MapVal(heap, reg[r])
\* The last index of element k in sequence s; the elements of s.
LastIndex(s, k) == CHOOSE i \in 1..Len(s) : s[i] = k /\ \A j \in (i + 1)..Len(s) : s[j] # k
Elems(s) == {s[i] : i \in 1..Len(s)}
\* The table a sequence of pairs builds when a later pair overwrites an earlier one.
LastWins(pairs) ==
    [k \in {pairs[i].Key : i \in 1..Len(pairs)} |->
        pairs[CHOOSE i \in 1..Len(pairs) :
                 pairs[i].Key = k /\ \A j \in (i + 1)..Len(pairs) : pairs[j].Key # k].Value]

\* C1: for a non-nil dst and any src, Update(dst, src) returns and leaves in dst exactly
\* the pairs of old dst and src together, src's value on a key of both; src holds
\* afterwards what it held before.
C1_UpdateMerges ==
    (Done("Update") /\ ~At(call.m1).nil) =>
        /\ ret.status = "returned"
        /\ ~Now(call.m1).nil
        /\ DOMAIN Now(call.m1).kv = (DOMAIN At(call.m1).kv) \cup (DOMAIN At(call.m2).kv)
        /\ \A k \in DOMAIN Now(call.m1).kv :
             Now(call.m1).kv[k] = IF k \in DOMAIN At(call.m2).kv THEN At(call.m2).kv[k]
                                  ELSE At(call.m1).kv[k]
        /\ Now(call.m2) = At(call.m2)

\* C1 witness: an Update that overwrote a colliding key with another value and added a key.
C1_Witness ==
    /\ Done("Update") /\ ret.status = "returned"
    /\ ~At("m2").nil /\ reg.m1 # reg.m2
    /\ \E k \in (DOMAIN At("m1").kv) \cap (DOMAIN At("m2").kv) : At("m1").kv[k] # At("m2").kv[k]
    /\ \E k \in (DOMAIN At("m2").kv) \ (DOMAIN At("m1").kv) : Now("m1").kv[k] = At("m2").kv[k]

\* C2: Update with a nil dst is fatal for every src and changes no map; FromFuncs with a
\* negative size or a nil keys function is fatal and has called neither function.
C2_FatalBeforeEffect ==
    /\ (Done("Update") /\ At(call.m1).nil) =>
          (ret.status = "fatal" /\ Now(call.m2) = At(call.m2) /\ Now(call.m1).nil)
    /\ (Done("FromFuncs") /\ (call.size < 0 \/ call.keys.nil)) =>
          (ret.status = "fatal" /\ ret.out.keyCalls = 0 /\ ret.out.valCalls = 0 /\ Now(call.to).nil)

\* C2 witness: Update of a nil dst from a non-empty src was fatal.
C2_Witness ==
    /\ Done("Update") /\ ret.status = "fatal"
    /\ At("m1").nil /\ ~At("m2").nil /\ DOMAIN At("m2").kv # {}

\* C3: Equal(m1, m2) is true iff both maps are nil, or both are non-nil with the same
\* keys and equal values; and Equal(m2, m1) gives the same answer.
C3_EqualCharacterised ==
    Done("Equal") =>
        /\ ret.status = "returned"
        /\ ret.out.fwd = (\/ Now("m1").nil /\ Now("m2").nil
                          \/ /\ ~Now("m1").nil /\ ~Now("m2").nil
                             /\ DOMAIN Now("m1").kv = DOMAIN Now("m2").kv
                             /\ \A k \in DOMAIN Now("m1").kv : Now("m1").kv[k] = Now("m2").kv[k])
        /\ ret.out.bwd = ret.out.fwd

\* C3 witness: Equal of a nil map and an empty non-nil map answered false both ways.
C3_Witness ==
    /\ Done("Equal") /\ Now("m1").nil /\ ~Now("m2").nil /\ DOMAIN Now("m2").kv = {}
    /\ ret.out.fwd = FALSE /\ ret.out.bwd = FALSE

\* C4: Clone(m) is Equal to m (nil for nil, empty for empty), and from then on every
\* Update, Clear or Delete changes only the map it is applied to: the other of clone
\* and original holds what it held.
C4_CloneIndependent ==
    /\ Done("Clone") =>
          /\ ret.status = "returned"
          /\ ret.out.equal = TRUE
          /\ Now(call.to) = Now(call.m)
    /\ hist.on => \A r \in Regs : Now(r) = hist.expect[r]

\* C4 witness: a non-empty clone was cleared and the original is still non-empty.
C4_Witness ==
    /\ hist.on /\ Done("Clear") /\ call.m = hist.copy
    /\ ~Now(hist.copy).nil /\ DOMAIN Now(hist.copy).kv = {}
    /\ ~Now(hist.orig).nil /\ DOMAIN Now(hist.orig).kv = KeySet

\* C5: Delete(m, fn) with a predicate fn removes exactly the entries fn is true of,
\* keeps the others with their values, and returns the number removed; a nil m stays
\* nil and gives 0.
C5_DeleteExact ==
    (Done("Delete") /\ call.fn # NilFn) =>
        /\ ret.status = "returned"
        /\ Now(call.m).nil = At(call.m).nil
        /\ DOMAIN Now(call.m).kv = {k \in DOMAIN At(call.m).kv : ~ApplyPred(call.fn, k, At(call.m).kv[k])}
        /\ \A k \in DOMAIN Now(call.m).kv : Now(call.m).kv[k] = At(call.m).kv[k]
        /\ ret.out + Cardinality(DOMAIN Now(call.m).kv) = Cardinality(DOMAIN At(call.m).kv)
        /\ At(call.m).nil => ret.out = 0

\* C5 witness: a Delete that removed one of two entries.
C5_Witness ==
    /\ Done("Delete") /\ call.fn = "v<1" /\ ret.out = 1
    /\ Cardinality(DOMAIN At("m1").kv) = 2 /\ Cardinality(DOMAIN Now("m1").kv) = 1

\* C6: FromFuncs(size, keys, values) with size >= 0 and a keys function calls keys size
\* times and values size times (never, when nil), and returns a non-nil map of the i-th
\* key with the i-th value (the zero value without values), the last pair of a key kept.
C6_FromFuncsPairs ==
    (Done("FromFuncs") /\ call.size >= 0 /\ ~call.keys.nil) =>
        /\ ret.status = "returned"
        /\ ret.out.keyCalls = call.size
        /\ ret.out.valCalls = (IF call.values.nil THEN 0 ELSE call.size)
        /\ ~Now(call.to).nil
        /\ DOMAIN Now(call.to).kv = {call.keys.stream[i] : i \in 1..call.size}
        /\ \A k \in DOMAIN Now(call.to).kv :
             Now(call.to).kv[k] =
                IF call.values.nil THEN Zero
                ELSE call.values.stream[LastIndex(SubSeq(call.keys.stream, 1, call.size), k)]
        /\ Cardinality(DOMAIN Now(call.to).kv) = Cardinality({call.keys.stream[i] : i \in 1..call.size})

\* C6 witness: two calls returned the same key, and the map holds it with the second value.
C6_Witness ==
    /\ Done("FromFuncs") /\ call.size = 2 /\ ~call.keys.nil /\ ~call.values.nil
    /\ call.keys.stream[1] = call.keys.stream[2] /\ call.values.stream[1] # call.values.stream[2]
    /\ ret.out.keyCalls = 2 /\ ret.out.valCalls = 2
    /\ Now("m1").kv[call.keys.stream[2]] = call.values.stream[2]

\* C7: FromSlices(keys, values) is nil iff keys is nil; otherwise its keys are the
\* elements of keys, each with the value at the last index of the key, or the zero
\* value when values has no such index.
C7_FromSlicesPairs ==
    Done("FromSlices") =>
        /\ ret.status = "returned"
        /\ Now(call.to).nil = call.keys.nil
        /\ DOMAIN Now(call.to).kv = Elems(call.keys.elems)
        /\ \A k \in DOMAIN Now(call.to).kv :
             Now(call.to).kv[k] =
                IF LastIndex(call.keys.elems, k) <= Len(call.values.elems)
                THEN call.values.elems[LastIndex(call.keys.elems, k)]
                ELSE Zero

\* C7 witness: a key given twice, with a value only for its first occurrence, holds zero.
C7_Witness ==
    /\ Done("FromSlices") /\ call.keys.elems = <<1, 1>> /\ call.values.elems = <<1>>
    /\ Now("m1").kv = [k \in {1} |-> Zero]

\* The calls that have to call a nil function argument.
CallsNilFunction ==
    \/ call.op = "Delete" /\ call.fn = NilFn /\ DOMAIN At(call.m).kv # {}
    \/ call.op = "KeysForValueFunc" /\ call.equal = NilFn /\ DOMAIN At(call.m).kv # {}
    \/ /\ call.op = "EqualFunc" /\ call.equal = NilFn
       /\ ~At(call.m1).nil /\ ~At(call.m2).nil
       /\ Cardinality(DOMAIN At(call.m1).kv) = Cardinality(DOMAIN At(call.m2).kv)
       /\ (DOMAIN At(call.m1).kv) \cap (DOMAIN At(call.m2).kv) # {}
    \/ call.op = "Collect" /\ call.seq.nil

FatalByContract ==
    \/ call.op = "Update" /\ At(call.m1).nil
    \/ call.op = "FromFuncs" /\ (call.size < 0 \/ call.keys.nil)

\* C8 as stated: apart from Update with a nil destination and FromFuncs with a negative
\* size or a nil keys function, no call is fatal, nil function arguments included.
C8_OnlyTwoFatal == ret.status = "fatal" => FatalByContract

\* C8 as amended: apart from those two and from the calls that have to call a nil
\* function argument (Delete or KeysForValueFunc with a nil function on a non-empty map,
\* EqualFunc with a nil function on two non-nil maps of equal size that share a key,
\* Collect of a nil sequence), no call is fatal.
C8_FatalOnlyOnNilCall == ret.status = "fatal" => (FatalByContract \/ CallsNilFunction)

\* C8 witness: Delete with a nil predicate on a nil map returned 0.
C8_Witness ==
    /\ Done("Delete") /\ call.fn = NilFn /\ At("m1").nil
    /\ ret.status = "returned" /\ ret.out = 0

\* The entries of a map, as Iter yields them.
Entries(mv) == {Item(k, mv.kv[k]) : k \in DOMAIN mv.kv}

\* C9: a run of Iter(m) never changes m and yields entries of m, none twice; a run the
\* consumer never stops ends having yielded every entry; once the consumer stops, the
\* run yields nothing more and returns; so does every later run.
C9_IterRuns ==
    (call.op = "Iter" /\ it.state # "idle") =>
        /\ heap = it.pre /\ Now(call.m) = At(call.m)
        /\ Elems(it.out) \subseteq Entries(Now(call.m))
        /\ \A i, j \in 1..Len(it.out) : i # j => it.out[i] # it.out[j]
        /\ it.late = 0
        /\ it.state = "running" => (ret.status = "pending" /\ ~it.refused)
        /\ it.state = "ended" =>
              (ret.status # "fatal" /\ ~it.refused /\ Elems(it.out) = Entries(Now(call.m)))
        /\ it.state = "stopped" =>
              (ret.status # "fatal" /\ it.refused /\ it.out # <<>>)

\* C9 witness: a run after one the consumer stopped has ended with both entries yielded.
C9_Witness ==
    /\ call.op = "Iter" /\ it.state = "ended" /\ it.afterStop
    /\ Len(it.out) = 2 /\ ret.status = "returned"

\* C10: Collect returns a non-nil map of the sequence's pairs, a later pair of a key
\* kept; Collect(Iter(m)) holds the pairs of m and is Equal to m unless m is nil, while
\* FromItems(Items(m)) is nil for a nil m.
C10_CollectNeverNil ==
    /\ (Done("Collect") /\ ~call.seq.nil) =>
          /\ ret.status = "returned"
          /\ ~Now(call.to).nil
          /\ Now(call.to).kv = LastWins(call.seq.elems)
    /\ Done("CollectIter") =>
          /\ ret.status = "returned"
          /\ ~Now(call.to).nil
          /\ Now(call.to).kv = At(call.m).kv
          /\ Now(call.m) = At(call.m)
          /\ (ret.out.equal = FALSE) = At(call.m).nil
          /\ ret.out.itemsNil = At(call.m).nil

\* C10 witness: Collect(Iter(m)) of a nil m is an empty non-nil map, not Equal to m.
C10_Witness ==
    /\ Done("CollectIter") /\ At("m1").nil
    /\ ~Now("m2").nil /\ DOMAIN Now("m2").kv = {} /\ ret.out.equal = FALSE

====
